---- MODULE Spec2Model ----
(***************************************************************************)
(* Model of the impact-dashboard backend (src/server.js): the PDF search   *)
(* endpoint with its in-memory cache, the snippet search, formatDate and   *)
(* the milestones endpoint.                                                *)
(*                                                                         *)
(* A JavaScript string is modelled as a sequence of UTF-16 code units,     *)
(* each unit written as a short token: "i", "I", "b", " " (space), "tab",  *)
(* "Idot" (U+0130, capital I with dot above) and "dot" (U+0307, the        *)
(* combining dot that U+0130 lower-cases to, after an "i").                *)
(***************************************************************************)
EXTENDS Integers, Sequences, FiniteSets, TLC

(***************************************************************************)
(* Bounds of the model                                                     *)
(***************************************************************************)
MaxReqs == 2        \* requests to /api/pdf-search in one behaviour
MaxText == 3        \* length of the exhaustively enumerated texts
MaxQuery == 3       \* length of the exhaustively enumerated q parameters

(***************************************************************************)
(* Program constants                                                       *)
(***************************************************************************)
PDF_CACHE_MS == 60 * 60 * 1000
MaxMatches == 8     \* while (matches.length < 8 ...
Context == 90       \* idx - 90, idx + query.length + 90

(***************************************************************************)
(* JavaScript string primitives used by the handlers                       *)
(***************************************************************************)
Min(a, b) == IF a < b THEN a ELSE b
Max(a, b) == IF a > b THEN a ELSE b

\* The code units the regular expression \s and String.prototype.trim treat
\* as white space.
IsSpace(c) == c \in {" ", "tab"}

\* String.prototype.toLowerCase, unit by unit: "I" becomes "i", and U+0130 is
\* the one unit whose lower case is two units long ("i", then U+0307). The
\* first unit of each lower case, and the second one where there is one.
LowerUnit(c) == IF c \in {"I", "Idot"} THEN "i" ELSE c

LowerTail(c) == IF c = "Idot" THEN "dot" ELSE "none"

ToLowerCase(s) ==
    LET units == [k \in 1..(2 * Len(s)) |->
                     IF k % 2 = 1 THEN LowerUnit(s[(k + 1) \div 2])
                     ELSE LowerTail(s[k \div 2])]
    IN  SelectSeq(units, LAMBDA c : c # "none")

RECURSIVE TrimStart(_)
TrimStart(s) ==
    IF s # <<>> /\ IsSpace(Head(s)) THEN TrimStart(Tail(s)) ELSE s

RECURSIVE TrimEnd(_)
TrimEnd(s) ==
    IF s # <<>> /\ IsSpace(s[Len(s)]) THEN TrimEnd(SubSeq(s, 1, Len(s) - 1)) ELSE s

\* Trim as a handler that forgot to trim would have it.
TrimNothing(s) == s

\* String(q).trim()
Trim(s) == TrimEnd(TrimStart(s))

\* hay.indexOf(needle, from): the least 0-based position at or after from
\* where needle occurs, or -1.
IndexOf(hay, needle, from) ==
    LET n == Len(needle)
        found == {k \in Max(0, from)..(Len(hay) - n) : SubSeq(hay, k + 1, k + n) = needle}
    IN  IF found = {} THEN -1
        ELSE CHOOSE k \in found : \A j \in found : k <= j

\* s.slice(start, end) for start, end >= 0: positions start .. end-1, both
\* clamped to the length, empty when start >= end.
Slice(s, start, end) ==
    LET a == Min(start, Len(s))
        b == Min(end, Len(s))
    IN  IF a >= b THEN <<>> ELSE SubSeq(s, a + 1, b)

\* s.replace(/\s+/g, ' '): every maximal run of white space becomes one space
\* (its first unit becomes the space, the rest of the run goes).
CollapseWs(s) ==
    LET units == [k \in 1..Len(s) |->
                     IF ~IsSpace(s[k]) THEN s[k]
                     ELSE IF k > 1 /\ IsSpace(s[k - 1]) THEN "none" ELSE " "]
    IN  SelectSeq(units, LAMBDA c : c # "none")

(***************************************************************************)
(* The snippet search of GET /api/pdf-search (lines 155-172)               *)
(***************************************************************************)
\* The snippet pushed for the match found at position idx of hay.
Snippet(allText, query, idx) ==
    LET start == Max(0, idx - Context)
        end   == Min(Len(allText), idx + Len(query) + Context)
    IN  CollapseWs(Slice(allText, start, end))

\* The cursor after the match at idx.
Advance(idx, query) == idx + Len(query)

\* The guard of the loop on the number of matches collected.
UnderCap(matches) == Len(matches) < MaxMatches

\* The while loop: positions in hay of the matches it pushes, in push order.
RECURSIVE ScanFrom(_, _, _, _, _)
ScanFrom(hay, needle, query, idx, found) ==
    IF ~UnderCap(found) THEN found
    ELSE LET at == IndexOf(hay, needle, idx)
         IN  IF at = -1 THEN found
             ELSE ScanFrom(hay, needle, query, Advance(at, query), Append(found, at))

\* hay and needle as the handler computes them.
Hay(allText) == ToLowerCase(allText)
Needle(query) == ToLowerCase(query)

\* The positions (in hay) the loop reports for a trimmed, non-empty query.
MatchPositions(allText, query) ==
    ScanFrom(Hay(allText), Needle(query), query, 0, <<>>)

\* The matches array for text allText and request parameter q.
SearchMatches(allText, q) ==
    LET query == Trim(q)
    IN  IF query = <<>> THEN <<>>
        ELSE LET pos == MatchPositions(allText, query)
             IN  [k \in 1..Len(pos) |-> Snippet(allText, query, pos[k])]

(***************************************************************************)
(* State                                                                   *)
(***************************************************************************)
VARIABLES
    pdfCache,   \* _pdfCache: url -> NoEntry or [fetchedAt, text]
    clock,      \* Date.now()
    reqs,       \* the /api/pdf-search requests: position and local variables
    fetches,    \* url -> number of fetch(url) calls issued so far
    writeLog,   \* the requests that called _pdfCache.set, in call order
    search,     \* one run of the snippet search: its inputs and its result
    fmt,        \* one call of formatDate: its argument and its result
    proj,       \* one subitem projection: the subitem and its timeline
    ms          \* one GET /api/milestones request

pdfVars == <<pdfCache, clock, reqs, fetches, writeLog>>
vars == <<pdfCache, clock, reqs, fetches, writeLog, search, fmt, proj, ms>>

(***************************************************************************)
(* GET /api/pdf-search (lines 134-177)                                     *)
(***************************************************************************)
Urls == {"u1", "u2"}

\* The url parameter: a document url, or "" for an empty or absent one
\* (undefined and '' are both falsy at line 140).
UrlParams == Urls \cup {""}

\* The q parameter: <<>> stands for an empty or absent one.
QParams == {<<>>, <<" ">>, <<"i">>}

\* What the upstream serves at a url: a PDF with text, a PDF without a text
\* layer, and bytes pdf-parse rejects.
Bodies == {"pdfA", "scan", "junk"}

NoEntry == [fetchedAt |-> -1, text |-> <<"none">>]

\* pdfParse(buf): TRUE when it resolves.
ParseResolves(body) == body # "junk"

\* parsed.text || ''
ParsedText(body) ==
    IF body = "pdfA" THEN <<"I", "b", " ", "i">> ELSE <<>>

RequestIds == 1..MaxReqs

\* The instants the model's clock visits, so that an entry's age is 0,
\* exactly the TTL and just over it.
ClockPoints == {0, PDF_CACHE_MS, PDF_CACHE_MS + 1}

IdleReq ==
    [pc |-> "idle", url |-> "", q |-> <<>>, now |-> 0, refetch |-> FALSE,
     body |-> "", allText |-> <<>>, status |-> 0, matches |-> <<>>]

\* NeedsFetch with the comparison off by one: an entry aged exactly the TTL
\* counts as stale.
NeedsFetchAtTtl(cached, now) ==
    cached = NoEntry \/ (now - cached.fetchedAt) >= PDF_CACHE_MS

\* if (!cached || (now - cached.fetchedAt) > PDF_CACHE_MS)
NeedsFetch(cached, now) ==
    cached = NoEntry \/ (now - cached.fetchedAt) > PDF_CACHE_MS

\* Lines 155-172: the search on cached.text and res.json({success: true, matches}).
Respond(r, rec, text) ==
    reqs' = [reqs EXCEPT ![r] = [rec EXCEPT !.pc = "done", !.body = "", !.allText = text,
                                            !.status = 200,
                                            !.matches = SearchMatches(text, rec.q)]]

\* Fail as a handler that falls back to the stale entry would have it.
FailServeStale(r, code) ==
    IF reqs[r].url \in Urls /\ pdfCache[reqs[r].url] # NoEntry
    THEN reqs' = [reqs EXCEPT ![r].pc = "done", ![r].body = "", ![r].status = 200,
                              ![r].allText = pdfCache[reqs[r].url].text,
                              ![r].matches = SearchMatches(pdfCache[reqs[r].url].text, reqs[r].q)]
    ELSE reqs' = [reqs EXCEPT ![r].pc = "done", ![r].body = "", ![r].status = code]

\* res.status(code).json({ success: false, error }) and the return or the end
\* of the handler.
Fail(r, code) ==
    reqs' = [reqs EXCEPT ![r].pc = "done", ![r].body = "", ![r].status = code]

\* NewEntry as a handler that reads Date.now() again when it stores the entry
\* would have it.
NewEntryStampedAtWrite(rec, text) == [fetchedAt |-> clock, text |-> text]

\* The value line 151-152 stores for request rec whose extraction gave text.
NewEntry(rec, text) == [fetchedAt |-> rec.now, text |-> text]

\* Lines 139-147: the handler up to its first await.
Receive(r, url, q) ==
    /\ reqs[r].pc = "idle"
    /\ IF r = 1 THEN TRUE ELSE reqs[r - 1].pc # "idle"
    /\ LET got == [reqs[r] EXCEPT !.url = url, !.q = q]
           rec == [got EXCEPT !.now = clock]
       IN  IF url = "" \/ q = <<>>
           THEN /\ reqs' = [reqs EXCEPT ![r] = [got EXCEPT !.pc = "done", !.status = 400]]
                /\ UNCHANGED fetches
           ELSE IF NeedsFetch(pdfCache[url], rec.now)
                THEN /\ reqs' = [reqs EXCEPT ![r] = [rec EXCEPT !.pc = "fetch", !.refetch = TRUE]]
                     /\ fetches' = [fetches EXCEPT ![url] = @ + 1]
                ELSE /\ Respond(r, rec, pdfCache[url].text)
                     /\ UNCHANGED fetches
    /\ UNCHANGED <<pdfCache, clock, writeLog, search, fmt, proj, ms>>

\* Lines 147-148: await fetch(url) settles: it rejects (transport error),
\* resolves with a non-success status, or resolves ok with a body.
FetchDone(r, outcome) ==
    /\ reqs[r].pc = "fetch"
    /\ CASE outcome = "throw" -> Fail(r, 500)
         [] outcome = "notok" -> Fail(r, 502)
         [] OTHER -> reqs' = [reqs EXCEPT ![r].pc = "body", ![r].body = outcome]
    /\ UNCHANGED <<pdfCache, clock, fetches, writeLog, search, fmt, proj, ms>>

\* Line 149: await resp.arrayBuffer() settles.
BodyDone(r, ok) ==
    /\ reqs[r].pc = "body"
    /\ IF ok THEN reqs' = [reqs EXCEPT ![r].pc = "parse"] ELSE Fail(r, 500)
    /\ UNCHANGED <<pdfCache, clock, fetches, writeLog, search, fmt, proj, ms>>

\* ParseDone as a handler that stores the entry before the extraction has
\* succeeded would have it.
ParseDoneStoreFirst(r) ==
    /\ reqs[r].pc = "parse"
    /\ LET cached == NewEntry(reqs[r], ParsedText(reqs[r].body))
       IN  /\ pdfCache' = [pdfCache EXCEPT ![reqs[r].url] = cached]
           /\ writeLog' = Append(writeLog, r)
           /\ IF ParseResolves(reqs[r].body)
              THEN Respond(r, reqs[r], cached.text)
              ELSE Fail(r, 500)
    /\ UNCHANGED <<clock, fetches, search, fmt, proj, ms>>

\* ParseDone as a handler that keeps an entry with a later fetchedAt would
\* have it.
ParseDoneKeepNewer(r) ==
    /\ reqs[r].pc = "parse"
    /\ IF ParseResolves(reqs[r].body)
       THEN LET cached == NewEntry(reqs[r], ParsedText(reqs[r].body))
                old == pdfCache[reqs[r].url]
            IN  /\ pdfCache' = IF old # NoEntry /\ old.fetchedAt > cached.fetchedAt
                               THEN pdfCache
                               ELSE [pdfCache EXCEPT ![reqs[r].url] = cached]
                /\ writeLog' = Append(writeLog, r)
                /\ Respond(r, reqs[r], cached.text)
       ELSE /\ Fail(r, 500)
            /\ UNCHANGED <<pdfCache, writeLog>>
    /\ UNCHANGED <<clock, fetches, search, fmt, proj, ms>>

\* Lines 150-172: await pdfParse(buf) settles; on success the entry is stored
\* and the search runs on it.
ParseDone(r) ==
    /\ reqs[r].pc = "parse"
    /\ IF ParseResolves(reqs[r].body)
       THEN LET cached == NewEntry(reqs[r], ParsedText(reqs[r].body))
            IN  /\ pdfCache' = [pdfCache EXCEPT ![reqs[r].url] = cached]
                /\ writeLog' = Append(writeLog, r)
                /\ Respond(r, reqs[r], cached.text)
       ELSE /\ Fail(r, 500)
            /\ UNCHANGED <<pdfCache, writeLog>>
    /\ UNCHANGED <<clock, fetches, search, fmt, proj, ms>>

\* Time passes: Date.now() moves to a later instant.
Tick(t) ==
    /\ t > clock
    /\ clock' = t
    /\ UNCHANGED <<pdfCache, reqs, fetches, writeLog, search, fmt, proj, ms>>

\* The server after start-up, before any request.
PdfIdle ==
    /\ pdfCache = [u \in Urls |-> NoEntry]
    /\ clock = 0
    /\ reqs = [r \in RequestIds |-> IdleReq]
    /\ fetches = [u \in Urls |-> 0]
    /\ writeLog = <<>>

NoCall == [pc |-> "none"]

Init ==
    /\ PdfIdle
    /\ search = NoCall
    /\ fmt = NoCall
    /\ proj = NoCall
    /\ ms = NoCall

Next ==
    \/ \E r \in RequestIds, url \in UrlParams, q \in QParams : Receive(r, url, q)
    \/ \E r \in RequestIds, o \in {"throw", "notok"} \cup Bodies : FetchDone(r, o)
    \/ \E r \in RequestIds, ok \in BOOLEAN : BodyDone(r, ok)
    \/ \E r \in RequestIds : ParseDone(r)
    \/ \E t \in ClockPoints : Tick(t)

Spec == Init /\ [][Next]_vars

(***************************************************************************)
(* Properties of the document cache                                        *)
(***************************************************************************)
\* q consists of white space only (or is empty).
IsBlank(q) == \A k \in 1..Len(q) : IsSpace(q[k])

Done(r) == reqs[r].pc = "done"

\* Request r leaves the idle state in this step, asking for u with a query the
\* validation accepts.
Arrives(r, u) ==
    /\ reqs[r].pc = "idle"
    /\ reqs'[r].pc # "idle"
    /\ reqs'[r].url = u
    /\ reqs'[r].q # <<>>

Fresh(u) ==
    /\ pdfCache[u] # NoEntry
    /\ clock - pdfCache[u].fetchedAt <= PDF_CACHE_MS

\* C1: a call that finds the url's entry no older than the TTL issues no fetch,
\* leaves the cache as it is and answers from the entry's text; and while a url
\* has been fetched exactly once, every successful call for it got the same text.
C1_HitWithinTtl ==
    /\ [][\A r \in RequestIds, u \in Urls :
            (Arrives(r, u) /\ Fresh(u)) =>
                /\ fetches' = fetches
                /\ pdfCache' = pdfCache
                /\ reqs'[r].pc = "done"
                /\ reqs'[r].status = 200
                /\ reqs'[r].allText = pdfCache[u].text]_vars
    /\ [](\A u \in Urls : fetches[u] = 1 =>
            \A r1, r2 \in RequestIds :
                (/\ Done(r1) /\ reqs[r1].status = 200 /\ reqs[r1].url = u
                 /\ Done(r2) /\ reqs[r2].status = 200 /\ reqs[r2].url = u)
                => reqs[r1].allText = reqs[r2].allText)

\* A first call fetched and succeeded, and a second call a whole TTL later was
\* answered from the cache without a second fetch.
C1_Witness ==
    \E r1, r2 \in RequestIds :
        /\ Done(r1) /\ reqs[r1].refetch /\ reqs[r1].status = 200
        /\ Done(r2) /\ ~reqs[r2].refetch /\ reqs[r2].status = 200
        /\ reqs[r1].url = reqs[r2].url
        /\ reqs[r2].now - reqs[r1].now = PDF_CACHE_MS
        /\ fetches[reqs[r1].url] = 1
        /\ reqs[r2].allText = reqs[r1].allText
        /\ reqs[r1].allText # <<>>

\* C2: a request whose fetch fails (it rejects, or its status is not a
\* success) is answered with an error that carries no text and no matches,
\* and the cache, a stale entry for the url included, is left as it was.
C2_FailedRefreshKeepsEntry ==
    [][\A r \in RequestIds :
          (reqs[r].pc = "fetch" /\ reqs'[r].pc = "done") =>
              /\ reqs'[r].status \in {500, 502}
              /\ reqs'[r].allText = <<>>
              /\ reqs'[r].matches = <<>>
              /\ pdfCache' = pdfCache]_vars

\* A refresh of a stale entry failed with 502 and the stale entry is still in
\* the map.
C2_Witness ==
    \E r \in RequestIds :
        /\ Done(r) /\ reqs[r].refetch /\ reqs[r].status = 502
        /\ pdfCache[reqs[r].url] # NoEntry
        /\ reqs[r].now - pdfCache[reqs[r].url].fetchedAt > PDF_CACHE_MS
        /\ pdfCache[reqs[r].url].text # <<>>

\* C3: the cache map changes only in the step in which a request's extraction
\* has succeeded, and then only at that request's url, to the whole entry
\* {fetchedAt: now, text}; a request that ends in failure leaves the map as it
\* was.
C3_NoPartialEntry ==
    [][/\ pdfCache' # pdfCache =>
            \E r \in RequestIds :
                /\ reqs[r].pc = "parse"
                /\ reqs'[r].pc = "done"
                /\ reqs'[r].status = 200
                /\ pdfCache' = [pdfCache EXCEPT ![reqs[r].url] =
                                   [fetchedAt |-> reqs[r].now,
                                    text |-> reqs'[r].allText]]
       /\ \A r \in RequestIds :
            (reqs[r].pc # "done" /\ reqs'[r].pc = "done" /\ reqs'[r].status # 200)
            => pdfCache' = pdfCache]_vars

\* The extraction of one request failed (500) while the map holds the entry
\* another request installed.
C3_Witness ==
    \E r, w \in RequestIds :
        /\ Done(r) /\ reqs[r].refetch /\ reqs[r].status = 500
        /\ Done(w) /\ reqs[w].refetch /\ reqs[w].status = 200
        /\ reqs[w].url = reqs[r].url
        /\ pdfCache[reqs[r].url] = [fetchedAt |-> reqs[w].now, text |-> reqs[w].allText]

\* The requests that stored an entry for u, in the order of their writes.
WritersOf(u) == SelectSeq(writeLog, LAMBDA r : reqs[r].url = u)

\* C4: every request that misses issues its own fetch (the fetches of a url
\* are as many as the requests that took the refetch branch for it), and the
\* entry in the map is the one of the request that wrote last.
C4_LastWriteWins ==
    \A u \in Urls :
        /\ fetches[u] = Cardinality({r \in RequestIds : reqs[r].refetch /\ reqs[r].url = u})
        /\ LET w == WritersOf(u)
           IN  IF w = <<>> THEN pdfCache[u] = NoEntry
               ELSE pdfCache[u] = [fetchedAt |-> reqs[w[Len(w)]].now,
                                   text |-> reqs[w[Len(w)]].allText]

\* Two requests missed on the same url at different instants, each fetched,
\* the later one wrote first and the earlier one wrote last.
C4_Witness ==
    \E a, b \in RequestIds :
        /\ reqs[a].url = reqs[b].url
        /\ reqs[a].now < reqs[b].now
        /\ reqs[a].allText # reqs[b].allText
        /\ fetches[reqs[a].url] = 2
        /\ WritersOf(reqs[a].url) = <<b, a>>

\* C6 as stated: every request with an empty or white-space-only q is answered
\* with success and no matches.
C6_BlankQueryAlwaysSucceeds ==
    \A r \in RequestIds :
        (Done(r) /\ reqs[r].url \in Urls /\ IsBlank(reqs[r].q))
        => (reqs[r].status = 200 /\ reqs[r].matches = <<>>)

\* C6 amended: an empty (or absent) q is rejected with 400; a white-space-only
\* q is answered with success and no matches when the text was obtained (from
\* a fresh entry, or by a fetch and extraction that succeeded), and with 502
\* or 500 when the fetch or the extraction failed.
C6_BlankQuery ==
    \A r \in RequestIds :
        (Done(r) /\ reqs[r].url \in Urls /\ IsBlank(reqs[r].q))
        => IF reqs[r].q = <<>> THEN reqs[r].status = 400
           ELSE \/ reqs[r].status = 200 /\ reqs[r].matches = <<>>
                \/ reqs[r].status \in {500, 502} /\ reqs[r].refetch
                   /\ reqs[r].matches = <<>>

\* A white-space-only query was answered with success and no matches on a
\* text that contains white space.
C6_Witness ==
    \E r \in RequestIds :
        /\ Done(r) /\ reqs[r].q = <<" ">> /\ reqs[r].status = 200
        /\ reqs[r].matches = <<>>
        /\ \E k \in 1..Len(reqs[r].allText) : IsSpace(reqs[r].allText[k])

\* The request whose entry the map holds for u (the last writer), or 0.
LastWriter(u) ==
    LET w == WritersOf(u) IN IF w = <<>> THEN 0 ELSE w[Len(w)]

\* C11 as stated: the fetchedAt of a url's entry never decreases, whatever the
\* interleaving of the requests: a write that replaces an entry stores a
\* fetchedAt greater than or equal to the one it replaces.
C11_FetchedAtNeverDecreases ==
    [][\A u \in Urls :
          pdfCache[u] # NoEntry => pdfCache'[u].fetchedAt >= pdfCache[u].fetchedAt]_vars

\* C11 amended: a write stores the instant its request took on arrival (line
\* 143, before the awaits), which is never later than the instant of the
\* write; it replaces the entry whatever that entry's fetchedAt is (last write
\* wins), so the fetchedAt of a url's entry goes down exactly when the writing
\* request arrived before, and at an earlier instant than, the request whose
\* entry it replaces; a request that arrived after that one never lowers it.
\* (Requests are numbered in the order of their arrival.)
C11_FetchedAtOfLastWriter ==
    [][\A w \in RequestIds :
          writeLog' = Append(writeLog, w) =>
              LET u == reqs[w].url
                  o == LastWriter(u)
              IN  /\ pdfCache'[u].fetchedAt = reqs[w].now
                  /\ pdfCache'[u].fetchedAt <= clock
                  /\ o # 0 =>
                       /\ pdfCache[u].fetchedAt = reqs[o].now
                       /\ (pdfCache'[u].fetchedAt < pdfCache[u].fetchedAt)
                          <=> (w < o /\ reqs[w].now < reqs[o].now)
                       /\ o < w => pdfCache'[u].fetchedAt >= pdfCache[u].fetchedAt]_vars

\* An entry was replaced by one with an earlier fetchedAt: of two requests for
\* one url the one that arrived first, at an earlier instant, wrote last, time
\* having passed since its arrival, and the map carries its instant.
C11_Witness ==
    \E a, b \in RequestIds :
        /\ a < b
        /\ reqs[a].url = reqs[b].url
        /\ reqs[a].now < reqs[b].now
        /\ WritersOf(reqs[a].url) = <<b, a>>
        /\ LastWriter(reqs[a].url) = a
        /\ pdfCache[reqs[a].url].fetchedAt = reqs[a].now
        /\ pdfCache[reqs[a].url].fetchedAt < clock

(***************************************************************************)
(* The snippet search on its own: every text and q parameter of a bounded  *)
(* family, searched once.                                                  *)
(***************************************************************************)
\* The code units texts and queries are drawn from.
Chars == {"i", "I", "Idot", " ", "tab"}

SeqsUpTo(S, n) == UNION {[1..k -> S] : k \in 0..n}

Repeat(c, n) == [k \in 1..n |-> c]

RECURSIVE RepeatSeq(_, _)
RepeatSeq(core, n) == IF n = 0 THEN <<>> ELSE core \o RepeatSeq(core, n - 1)

\* Texts that put a match past the 90-unit context: a long run of one unit,
\* then a short tail.
PaddedTexts ==
    {Repeat(c, n) \o t : c \in {"Idot", "tab"}, n \in {Context, Context + 1},
                         t \in SeqsUpTo(Chars, MaxText - 1) \ {<<>>}}

\* Texts with MaxMatches occurrences and more.
RepeatedTexts ==
    {RepeatSeq(core, n) : core \in SeqsUpTo(Chars, MaxText - 1) \ {<<>>},
                          n \in {MaxMatches, MaxMatches + 1}}

Texts == SeqsUpTo(Chars, MaxText) \cup PaddedTexts \cup RepeatedTexts

Queries == SeqsUpTo(Chars, MaxQuery)

\* Lines 155-172 applied to the text and q of the call.
RunSearch ==
    /\ search.pc = "call"
    /\ search' = [search EXCEPT !.pc = "done",
                                !.matches = SearchMatches(search.text, search.q)]
    /\ UNCHANGED <<pdfVars, fmt, proj, ms>>

SearchInit ==
    /\ PdfIdle
    /\ search \in {[pc |-> "call", text |-> t, q |-> q, matches |-> <<>>] :
                      t \in Texts, q \in Queries}
    /\ fmt = NoCall
    /\ proj = NoCall
    /\ ms = NoCall

SearchNext == RunSearch

SearchSpec == SearchInit /\ [][SearchNext]_vars

(***************************************************************************)
(* Properties of the snippet search                                        *)
(***************************************************************************)
\* needle occurs in hay at 0-based position k.
OccursAt(hay, needle, k) ==
    /\ k >= 0
    /\ k + Len(needle) <= Len(hay)
    /\ SubSeq(hay, k + 1, k + Len(needle)) = needle

Occurrences(hay, needle) == {k \in 0..Len(hay) : OccursAt(hay, needle, k)}

Contains(s, part) == \E k \in 0..Len(s) : OccursAt(s, part, k)

\* The positions at which a chain of j pairwise non-overlapping occurrences
\* of needle in hay can end.
RECURSIVE ChainEnds(_, _, _)
ChainEnds(hay, needle, j) ==
    IF j = 1 THEN Occurrences(hay, needle)
    ELSE LET before == ChainEnds(hay, needle, j - 1)
         IN  {o \in Occurrences(hay, needle) :
                 \E p \in before : p + Len(needle) <= o /\ \A b \in before : p <= b}

\* hay holds at least j pairwise non-overlapping occurrences of needle.
HasDisjoint(hay, needle, j) == ChainEnds(hay, needle, j) # {}

\* A search that ran to its end on a query that is not blank.
Searched == search.pc = "done" /\ ~IsBlank(search.q)

\* What C5 says of the matches returned for text and the trimmed query.
ScanClaim(text, query, matches) ==
    LET hay == ToLowerCase(text)
        needle == ToLowerCase(query)
        n == Len(needle)
        pos == MatchPositions(text, query)
    IN  /\ Len(matches) = Len(pos)
        /\ \A k \in 1..Len(pos) :
              /\ OccursAt(hay, needle, pos[k])
              /\ matches[k] = Snippet(text, query, pos[k])
        /\ \A k \in 1..(Len(pos) - 1) : pos[k] + n <= pos[k + 1]
        /\ \A o \in Occurrences(hay, needle) :
              \/ \E k \in 1..Len(pos) : pos[k] <= o /\ o < pos[k] + n
              \/ Len(pos) = MaxMatches /\ o > pos[Len(pos)]
        /\ Len(matches) <= MaxMatches
        /\ HasDisjoint(hay, needle, MaxMatches) => Len(matches) = MaxMatches

\* C5: the matches are the snippets of the occurrences a left-to-right scan
\* finds, which never overlap, in order of position, cut off after 8: at most
\* 8 and exactly 8 when 8 non-overlapping occurrences exist.
C5_NonOverlappingScan ==
    Searched => ScanClaim(search.text, Trim(search.q), search.matches)

\* C5 holds of every query whose lower case is as long as the query itself
\* (every query without U+0130).
C5_ScanOfPlainQuery ==
    (Searched /\ Len(ToLowerCase(search.q)) = Len(search.q))
    => ScanClaim(search.text, Trim(search.q), search.matches)

\* C7: every snippet contains the matched substring, compared without regard
\* to case and with its white-space runs collapsed as the snippet's are, and
\* is no longer than the match and 90 units on either side.
C7_SnippetContainsMatch ==
    Searched =>
        \A k \in 1..Len(search.matches) :
            /\ Contains(ToLowerCase(search.matches[k]),
                        ToLowerCase(CollapseWs(Trim(search.q))))
            /\ Len(search.matches[k]) <= Context + Len(Trim(search.q)) + Context

\* C7 read to the letter: the snippet contains the lower-cased query itself.
C7_SnippetContainsQuery ==
    Searched =>
        \A k \in 1..Len(search.matches) :
            Contains(ToLowerCase(search.matches[k]), ToLowerCase(Trim(search.q)))

\* C7 holds, white space collapsed, of every text whose lower case is as long
\* as the text itself (every text without U+0130).
C7_SnippetOfPlainText ==
    (Searched /\ Len(ToLowerCase(search.text)) = Len(search.text))
    => \A k \in 1..Len(search.matches) :
            /\ Contains(ToLowerCase(search.matches[k]),
                        ToLowerCase(CollapseWs(Trim(search.q))))
            /\ Len(search.matches[k]) <= Context + Len(Trim(search.q)) + Context

(***************************************************************************)
(* JavaScript values and formatDate (lines 25-29)                          *)
(***************************************************************************)
\* A value: undefined, null, a non-zero number, or a string of code units.
Undefined == [t |-> "undefined", s |-> <<>>]
Null == [t |-> "null", s |-> <<>>]
Number == [t |-> "number", s |-> <<>>]
Str(s) == [t |-> "string", s |-> s]

\* !v
Falsy(v) == v.t \in {"undefined", "null"} \/ (v.t = "string" /\ v.s = <<>>)

\* The result of a call: a string, or an exception thrown.
Returned(s) == [threw |-> FALSE, s |-> s]
Threw == [threw |-> TRUE, s |-> <<>>]

\* s.split(sep): the pieces of s between the separators.
RECURSIVE Split(_, _)
Split(s, sep) ==
    IF \A k \in 1..Len(s) : s[k] # sep THEN <<s>>
    ELSE LET at == CHOOSE k \in 1..Len(s) :
                       s[k] = sep /\ \A j \in 1..(k - 1) : s[j] # sep
         IN  <<SubSeq(s, 1, at - 1)>> \o Split(SubSeq(s, at + 1, Len(s)), sep)

\* ${x} for the k-th element of a destructured array: the element, or the
\* text "undefined" when the array is shorter.
Interpolated(parts, k) ==
    IF k <= Len(parts) THEN parts[k]
    ELSE <<"u", "n", "d", "e", "f", "i", "n", "e", "d">>

\* formatDate(iso). A truthy value that is no string has no includes method:
\* the call throws a TypeError.
FormatDate(iso) ==
    IF Falsy(iso) THEN Returned(<<>>)
    ELSE IF iso.t # "string" THEN Threw
    ELSE IF \A k \in 1..Len(iso.s) : iso.s[k] # "-" THEN Returned(<<>>)
    ELSE LET parts == Split(iso.s, "-")
         IN  Returned(Interpolated(parts, 3) \o <<"/">> \o Interpolated(parts, 2)
                      \o <<"/">> \o Interpolated(parts, 1))

(***************************************************************************)
(* formatDate on its own: every argument of a bounded family               *)
(***************************************************************************)
MaxParts == 4       \* pieces a date string is joined from

\* The pieces date strings are joined from with "-".
Pieces == {<<>>, <<"2", "0", "2", "4">>, <<"0", "3">>, <<"0", "7">>, <<"x">>}

RECURSIVE Joined(_)
Joined(ps) ==
    IF Len(ps) = 1 THEN ps[1] ELSE ps[1] \o <<"-">> \o Joined(Tail(ps))

DateStrings == {Joined(ps) : ps \in UNION {[1..n -> Pieces] : n \in 1..MaxParts}}

DateArgs == {Undefined, Null, Number} \cup {Str(s) : s \in DateStrings}

CallFormatDate ==
    /\ fmt.pc = "call"
    /\ fmt' = [fmt EXCEPT !.pc = "done", !.out = FormatDate(fmt.iso)]
    /\ UNCHANGED <<pdfVars, search, proj, ms>>

DateInit ==
    /\ PdfIdle
    /\ search = NoCall
    /\ fmt \in {[pc |-> "call", iso |-> v, out |-> Returned(<<>>)] : v \in DateArgs}
    /\ proj = NoCall
    /\ ms = NoCall

DateNext == CallFormatDate

DateSpec == DateInit /\ [][DateNext]_vars

(***************************************************************************)
(* Properties of formatDate                                                *)
(***************************************************************************)
Digits == {"0", "1", "2", "3", "4", "5", "6", "7", "8", "9"}

\* v is a string of the shape YYYY-MM-DD.
WellFormed(v) ==
    /\ v.t = "string"
    /\ Len(v.s) = 10
    /\ \A k \in 1..10 : IF k \in {5, 8} THEN v.s[k] = "-" ELSE v.s[k] \in Digits

\* DD/MM/YYYY of a well-formed YYYY-MM-DD.
DayMonthYear(s) == SubSeq(s, 9, 10) \o <<"/">> \o SubSeq(s, 6, 7) \o <<"/">> \o SubSeq(s, 1, 4)

\* C9: formatDate returns DD/MM/YYYY for a well-formed YYYY-MM-DD, and the
\* empty string, without raising, for every other argument.
C9_FormatDate ==
    fmt.pc = "done" =>
        /\ ~fmt.out.threw
        /\ fmt.out.s = IF WellFormed(fmt.iso) THEN DayMonthYear(fmt.iso.s) ELSE <<>>

\* C9 holds of well-formed dates, of missing arguments and of strings
\* without "-".
C9_FormatDateOfPlainArgs ==
    (/\ fmt.pc = "done"
     /\ \/ WellFormed(fmt.iso)
        \/ Falsy(fmt.iso)
        \/ fmt.iso.t = "string" /\ \A k \in 1..Len(fmt.iso.s) : fmt.iso.s[k] # "-")
    => /\ ~fmt.out.threw
       /\ fmt.out.s = IF WellFormed(fmt.iso) THEN DayMonthYear(fmt.iso.s) ELSE <<>>

C9_Witness ==
    /\ fmt.pc = "done"
    /\ fmt.iso = Str(<<"2", "0", "2", "4", "-", "0", "3", "-", "0", "7">>)
    /\ fmt.out.s = <<"0", "7", "/", "0", "3", "/", "2", "0", "2", "4">>

(***************************************************************************)
(* MilestoneProjector: the maps of GET /api/milestones (lines 87-124)      *)
(***************************************************************************)
\* A column of an item or subitem: its id, its text (<<>> for null or '') and
\* its raw value.
Col(id, text, value) == [id |-> id, text |-> text, value |-> value]

\* Raw column values: null (or ''), text that is no JSON, and the JSON texts
\* null, 5 and {"from": f, "to": t} (a key whose value is Undefined is not in
\* the object).
NoRaw == [kind |-> "none", from |-> Undefined, to |-> Undefined]
GarbageRaw == [kind |-> "garbage", from |-> Undefined, to |-> Undefined]
NullRaw == [kind |-> "null", from |-> Undefined, to |-> Undefined]
NumberRaw == [kind |-> "number", from |-> Undefined, to |-> Undefined]
ObjectRaw(f, t) == [kind |-> "object", from |-> f, to |-> t]

\* JSON.parse(raw) throws on text that is no JSON.
JsonParseThrows(raw) == raw.kind = "garbage"

\* val.from or val.to throws when val is null.
MemberThrows(raw) == raw.kind = "null"

\* cols.find(c => c.id === id): the first column with the id, or NoCol for
\* undefined.
NoCol == Col("", <<>>, NoRaw)

Find(cols, id) ==
    IF \A k \in 1..Len(cols) : cols[k].id # id THEN NoCol
    ELSE cols[CHOOSE k \in 1..Len(cols) :
                  cols[k].id = id /\ \A j \in 1..(k - 1) : cols[j].id # id]

EnDash == <<" ", "endash", " ">>

\* Lines 98-106: the timeline of a subitem from its timeline column. Every
\* exception between try and catch leaves timeline at ''.
Timeline(timelineCol) ==
    LET raw == timelineCol.value
        from == FormatDate(raw.from)
        to == FormatDate(raw.to)
    IN  IF raw.kind = "none" THEN <<>>
        ELSE IF JsonParseThrows(raw) \/ MemberThrows(raw) THEN <<>>
        ELSE IF from.threw THEN <<>>
        ELSE IF to.threw THEN <<>>
        ELSE IF from.s # <<>> /\ to.s # <<>> THEN from.s \o EnDash \o to.s
        ELSE <<>>

\* The result of a projection: the projected value, or an exception thrown.
Projected(v) == [threw |-> FALSE, val |-> v]
ProjectionThrew == [threw |-> TRUE, val |-> <<>>]

\* Lines 92-115: one subitem. sub.column_values.find throws when
\* column_values is null.
ProjectSub(sub) ==
    IF sub.colsNull THEN ProjectionThrew
    ELSE Projected([name |-> sub.name,
                    sponsor |-> Find(sub.cols, "person").text,
                    lead |-> Find(sub.cols, "multiple_person_mkr3784v").text,
                    timeline |-> Timeline(Find(sub.cols, "timerange_mkpca05e")),
                    status |-> Find(sub.cols, "status").text])

\* Lines 87-124: one item, with its subitems in order.
ProjectItem(item) ==
    IF item.colsNull THEN ProjectionThrew
    ELSE IF \E k \in 1..Len(item.subs) : ProjectSub(item.subs[k]).threw
         THEN ProjectionThrew
    ELSE Projected([name |-> item.name,
                    description |-> Find(item.cols, "long_text_mkp52kd7").text,
                    date |-> FormatDate(Str(Find(item.cols, "date4").text)).s,
                    portfolio |-> Find(item.cols, "dropdown_mkp5e1h0").text,
                    subitems |-> [k \in 1..Len(item.subs) |->
                                     ProjectSub(item.subs[k]).val]])

\* items.map as a version that drops the items it cannot project would have it.
ProjectItemsSkipBad(items) ==
    LET good == SelectSeq(items, LAMBDA it : ~ProjectItem(it).threw)
    IN  Projected([k \in 1..Len(good) |-> ProjectItem(good[k]).val])

\* Line 87: items.map(...): every item in order, or the first exception.
ProjectItems(items) ==
    IF \E k \in 1..Len(items) : ProjectItem(items[k]).threw THEN ProjectionThrew
    ELSE Projected([k \in 1..Len(items) |-> ProjectItem(items[k]).val])

(***************************************************************************)
(* The subitem projection on its own: every timeline column of a bounded   *)
(* family                                                                  *)
(***************************************************************************)
D1 == <<"2", "0", "2", "4", "-", "0", "3", "-", "0", "7">>
D2 == <<"2", "0", "2", "4", "-", "0", "4", "-", "0", "8">>

\* The values of from and to.
BoundValues ==
    {Undefined, Null, Number, Str(<<>>), Str(<<"x">>), Str(D1), Str(D2),
     Str(<<"2", "0", "2", "4", "-", "0", "3">>)}

RawValues ==
    {NoRaw, GarbageRaw, NullRaw, NumberRaw}
    \cup {ObjectRaw(f, t) : f \in BoundValues, t \in BoundValues}

\* Subitems: without a timeline column, or with one of each raw value, or
\* with column_values null.
Subitems ==
    {[name |-> "sub", colsNull |-> FALSE, cols |-> <<Col("status", <<"ok">>, NoRaw)>>],
     [name |-> "sub", colsNull |-> TRUE, cols |-> <<>>]}
    \cup {[name |-> "sub", colsNull |-> FALSE,
           cols |-> <<Col("person", <<"p">>, NoRaw),
                      Col("timerange_mkpca05e", <<"t">>, raw)>>] : raw \in RawValues}

CallProjectSub ==
    /\ proj.pc = "call"
    /\ proj' = [proj EXCEPT !.pc = "done", !.out = ProjectSub(proj.sub)]
    /\ UNCHANGED <<pdfVars, search, fmt, ms>>

ProjectInit ==
    /\ PdfIdle
    /\ search = NoCall
    /\ fmt = NoCall
    /\ proj \in {[pc |-> "call", sub |-> sub, out |-> ProjectionThrew] : sub \in Subitems}
    /\ ms = NoCall

ProjectNext == CallProjectSub

ProjectSpec == ProjectInit /\ [][ProjectNext]_vars

(***************************************************************************)
(* Properties of the timeline                                              *)
(***************************************************************************)
\* A subitem with its column_values was projected.
SubProjected == proj.pc = "done" /\ ~proj.sub.colsNull

TimelineRaw == Find(proj.sub.cols, "timerange_mkpca05e").value

\* The timeline column holds JSON with both bounds well-formed dates.
BothBoundsFormattable ==
    /\ TimelineRaw.kind = "object"
    /\ WellFormed(TimelineRaw.from)
    /\ WellFormed(TimelineRaw.to)

\* C10: the timeline is 'from - to' of both bounds, formatted, when the column
\* is there, its value parses and both bounds are formattable, and the empty
\* string otherwise; the projection never fails on the timeline value.
C10_Timeline ==
    SubProjected =>
        /\ ~proj.out.threw
        /\ proj.out.val.timeline =
              IF BothBoundsFormattable
              THEN DayMonthYear(TimelineRaw.from.s) \o EnDash \o DayMonthYear(TimelineRaw.to.s)
              ELSE <<>>

\* C10 with "unformattable" read as "formatDate returns '' or throws": the
\* timeline is both bounds as formatDate returns them, or the empty string,
\* never one bound alone, and the projection does not fail.
C10_TimelineOfFormatDate ==
    SubProjected =>
        /\ ~proj.out.threw
        /\ LET from == FormatDate(TimelineRaw.from)
               to == FormatDate(TimelineRaw.to)
               both == /\ TimelineRaw.kind = "object"
                       /\ ~from.threw /\ from.s # <<>>
                       /\ ~to.threw /\ to.s # <<>>
           IN  proj.out.val.timeline =
                  IF both THEN from.s \o EnDash \o to.s ELSE <<>>

C10_Witness ==
    /\ SubProjected
    /\ BothBoundsFormattable
    /\ proj.out.val.timeline = DayMonthYear(D1) \o EnDash \o DayMonthYear(D2)

(***************************************************************************)
(* GET /api/milestones (lines 31-51 and 63-131)                            *)
(***************************************************************************)
MaxItems == 2       \* items in an upstream response

GoodSub ==
    [name |-> "s1", colsNull |-> FALSE,
     cols |-> <<Col("person", <<"p">>, NoRaw),
                Col("timerange_mkpca05e", <<"t">>, ObjectRaw(Str(D1), Str(D2))),
                Col("status", <<"ok">>, NoRaw)>>]

GarbageSub ==
    [name |-> "s2", colsNull |-> FALSE,
     cols |-> <<Col("timerange_mkpca05e", <<"t">>, GarbageRaw)>>]

BrokenSub == [name |-> "s3", colsNull |-> TRUE, cols |-> <<>>]

\* The items the upstream sends: a full one, one without columns or subitems,
\* one whose subitem has a timeline that is no JSON, one whose column_values
\* is null and one with a subitem whose column_values is null (projecting
\* either of the last two throws).
UpstreamItems ==
    {[name |-> "m1", colsNull |-> FALSE,
      cols |-> <<Col("long_text_mkp52kd7", <<"d">>, NoRaw), Col("date4", D1, NoRaw),
                 Col("dropdown_mkp5e1h0", <<"f">>, NoRaw)>>,
      subs |-> <<GoodSub>>],
     [name |-> "m2", colsNull |-> FALSE, cols |-> <<>>, subs |-> <<>>],
     [name |-> "m3", colsNull |-> FALSE, cols |-> <<Col("date4", <<"x">>, NoRaw)>>,
      subs |-> <<GarbageSub>>],
     [name |-> "m4", colsNull |-> TRUE, cols |-> <<>>, subs |-> <<>>],
     [name |-> "m5", colsNull |-> FALSE, cols |-> <<>>, subs |-> <<BrokenSub>>]}

\* The bodies res.json() resolves to: with or without an errors list, with
\* the items of data.boards[0].items_page.items (<<>> also when the path is
\* absent: || []).
JsonBodies ==
    {[errors |-> e, items |-> its] :
        e \in BOOLEAN, its \in SeqsUpTo(UpstreamItems, MaxItems)}

NoBody == [errors |-> FALSE, items |-> <<>>]

IdleMs ==
    [pc |-> "idle", configured |-> TRUE, outcome |-> "none", ok |-> TRUE,
     body |-> NoBody, responses |-> 0, status |-> 0, success |-> FALSE,
     items |-> <<>>]

\* The catch of lines 127-130: res.status(500).json({ success: false, error }).
MsFail(cause) ==
    ms' = [ms EXCEPT !.pc = "done", !.outcome = cause, !.responses = @ + 1,
                     !.status = 500, !.success = FALSE, !.items = <<>>]

\* Lines 63-84 and 32-36: the handler up to await fetch; fetchFromMonday
\* throws when MONDAY_API_KEY or MAIN_BOARD_ID is not set.
MsReceive ==
    /\ ms.pc = "idle"
    /\ IF ~ms.configured THEN MsFail("config")
       ELSE ms' = [ms EXCEPT !.pc = "fetch"]
    /\ UNCHANGED <<pdfVars, search, fmt, proj>>

\* Lines 36-43: await fetch(MONDAY_API_URL, ...) settles: it rejects, or
\* resolves with a status that is a success or not.
MsFetchDone(rejects, ok) ==
    /\ ms.pc = "fetch"
    /\ IF rejects THEN MsFail("transport")
       ELSE ms' = [ms EXCEPT !.pc = "json", !.ok = ok]
    /\ UNCHANGED <<pdfVars, search, fmt, proj>>

\* Lines 45-50 and 84-130: await res.json() settles; then the check of
\* res.ok and json.errors, the projection and the response.
MsJsonDone(rejects, body) ==
    /\ ms.pc = "json"
    /\ IF rejects THEN MsFail("badjson")
       ELSE IF ~ms.ok \/ body.errors
            THEN ms' = [ms EXCEPT !.pc = "done", !.body = body,
                                  !.outcome = IF ~ms.ok THEN "status" ELSE "errors",
                                  !.responses = @ + 1, !.status = 500,
                                  !.success = FALSE, !.items = <<>>]
       ELSE LET formatted == ProjectItems(body.items)
            IN  IF formatted.threw
                THEN ms' = [ms EXCEPT !.pc = "done", !.body = body,
                                      !.outcome = "projection",
                                      !.responses = @ + 1, !.status = 500,
                                      !.success = FALSE, !.items = <<>>]
                ELSE ms' = [ms EXCEPT !.pc = "done", !.body = body,
                                      !.responses = @ + 1, !.status = 200,
                                      !.success = TRUE, !.items = formatted.val]
    /\ UNCHANGED <<pdfVars, search, fmt, proj>>

\* The process is started with or without its credentials, and a request
\* comes in.
MilestoneInit ==
    /\ PdfIdle
    /\ search = NoCall
    /\ fmt = NoCall
    /\ proj = NoCall
    /\ ms \in {[IdleMs EXCEPT !.configured = c] : c \in BOOLEAN}

MilestoneNext ==
    \/ MsReceive
    \/ \E rejects \in BOOLEAN, ok \in BOOLEAN : MsFetchDone(rejects, ok)
    \/ \E rejects \in BOOLEAN, body \in JsonBodies : MsJsonDone(rejects, body)

MilestoneSpec == MilestoneInit /\ [][MilestoneNext]_vars

(***************************************************************************)
(* Properties of GET /api/milestones                                       *)
(***************************************************************************)
\* Something failed on the way of the request: the configuration, the
\* transport, the body, the status, the error list, or the projection of one
\* of the items received.
MsFailed ==
    \/ ~ms.configured
    \/ ms.outcome \in {"transport", "badjson"}
    \/ ~ms.ok
    \/ ms.body.errors
    \/ \E k \in 1..Len(ms.body.items) : ProjectItem(ms.body.items[k]).threw

\* C8: a request is answered at most once, and once when it has ended: with
\* 500 and no items when anything failed, and otherwise with success and the
\* projection of every upstream item, in order.
C8_AllOrNothing ==
    /\ ms.pc # "none" => ms.responses = (IF ms.pc = "done" THEN 1 ELSE 0)
    /\ ms.pc = "done" =>
          IF MsFailed
          THEN ms.status = 500 /\ ~ms.success /\ ms.items = <<>>
          ELSE /\ ms.status = 200 /\ ms.success
               /\ Len(ms.items) = Len(ms.body.items)
               /\ \A k \in 1..Len(ms.items) :
                     ms.items[k] = ProjectItem(ms.body.items[k]).val

\* A response of two items whose second item cannot be projected was answered
\* with 500 and no items.
C8_Witness ==
    /\ ms.pc = "done"
    /\ Len(ms.body.items) = 2
    /\ ~ProjectItem(ms.body.items[1]).threw
    /\ ProjectItem(ms.body.items[2]).threw
    /\ ms.ok /\ ~ms.body.errors
    /\ ms.status = 500 /\ ms.items = <<>> /\ ms.responses = 1

====
